---- MODULE Spec2Model ----
(***************************************************************************)
(* Model of ampt_monitor_zeek/plugin.py: ZeekAMPTMonitor tails one Zeek    *)
(* signature log, pre-filters lines on sig_name, parses them with          *)
(* RE_SIG_LOG and puts the resulting event on the queue of the core.       *)
(* Text is modelled as a sequence of one-character strings; file offsets   *)
(* are 0-based character counts as returned by tell().                     *)
(***************************************************************************)
EXTENDS Integers, Sequences, FiniteSets, TLC

\* ------------------------------------------------------------------ bounds
\* number of operations of the external log writer in one behaviour
MaxWrites == 3

\* ------------------------------------------------------------ text helpers
Digits == <<"0", "1", "2", "3", "4", "5", "6", "7", "8", "9">>

IsDigit(c) == \E d \in 1..10 : Digits[d] = c

DigitVal(c) == (CHOOSE d \in 1..10 : Digits[d] = c) - 1

\* the characters \s matches (and str.strip() removes)
IsSpace(c) == c \in {" ", "\n", "\t"}

Slice(s, from, to) == [k \in 1..(to - from + 1) |-> s[from + k - 1]]

\* `needle in hay` of Python: plain, case-sensitive substring test
Contains(hay, needle) ==
    \E k \in 0..(Len(hay) - Len(needle)) :
        \A j \in 1..Len(needle) : hay[k + j] = needle[j]

\* str.strip(): drop leading and trailing whitespace
Strip(s) ==
    LET keep == {k \in 1..Len(s) : ~IsSpace(s[k])}
    IN  IF keep = {} THEN <<>>
        ELSE LET lo == CHOOSE k \in keep : \A m \in keep : k <= m
                 hi == CHOOSE k \in keep : \A m \in keep : k >= m
             IN  Slice(s, lo, hi)

\* int(): decimal digits to a number
RECURSIVE ToInt(_)
ToInt(ds) ==
    IF ds = <<>> THEN 0
    ELSE 10 * ToInt(Slice(ds, 1, Len(ds) - 1)) + DigitVal(ds[Len(ds)])

\* first index >= i of s that does not hold a digit (Len(s)+1 when none)
RECURSIVE DigitRun(_, _)
DigitRun(s, i) ==
    IF i <= Len(s) /\ IsDigit(s[i]) THEN DigitRun(s, i + 1) ELSE i

\* first index >= i of s that holds whitespace (Len(s)+1 when none)
RECURSIVE WordRun(_, _)
WordRun(s, i) ==
    IF i <= Len(s) /\ ~IsSpace(s[i]) THEN WordRun(s, i + 1) ELSE i

SpaceAt(s, i) == i <= Len(s) /\ IsSpace(s[i])

\* RE_SIG_LOG.match(log): the groups of the match, or None
None == [matched |-> FALSE]

RE_SIG_LOG(s) ==
    LET a  == DigitRun(s, 1)          \* \d+
        b  == DigitRun(s, a + 1)      \* \. \d+
        c  == WordRun(s, b + 1)       \* \s \S+
        d  == WordRun(s, c + 1)       \* \s (?P<src_addr>\S+)
        e  == DigitRun(s, d + 1)      \* \s (?P<src_port>\d{1,5})
        f  == WordRun(s, e + 1)       \* \s (?P<dst_addr>\S+)
        g0 == DigitRun(s, f + 1)      \* \s (?P<dst_port>\d{1,5})
        g  == IF g0 > f + 6 THEN f + 6 ELSE g0
    IN  IF /\ a > 1 /\ a <= Len(s) /\ s[a] = "."
           /\ b > a + 1 /\ SpaceAt(s, b)
           /\ c > b + 1 /\ SpaceAt(s, c)
           /\ d > c + 1 /\ SpaceAt(s, d)
           /\ e > d + 1 /\ e <= d + 6 /\ SpaceAt(s, e)
           /\ f > e + 1 /\ SpaceAt(s, f)
           /\ g > f + 1
        THEN [matched  |-> TRUE,
              ts_int   |-> Slice(s, 1, a - 1),
              ts_frac  |-> Slice(s, a + 1, b - 1),
              src_addr |-> Slice(s, c + 1, d - 1),
              src_port |-> Slice(s, d + 1, e - 1),
              dst_addr |-> Slice(s, e + 1, f - 1),
              dst_port |-> Slice(s, f + 1, g - 1)]
        ELSE None

\* ------------------------------------------------------- timestamp helpers
Pad2Bare(n) ==
    IF n < 10 THEN <<Digits[n + 1]>>
    ELSE <<Digits[((n \div 10) % 10) + 1], Digits[(n % 10) + 1]>>

Pad2(n) == <<Digits[((n \div 10) % 10) + 1], Digits[(n % 10) + 1]>>

Pad4(n) == Pad2(n \div 100) \o Pad2(n % 100)

\* microseconds of the fraction digits, rounded as utcfromtimestamp does
Micros(frac) ==
    LET six == [k \in 1..6 |-> IF k <= Len(frac) THEN frac[k] ELSE "0"]
        up  == IF Len(frac) >= 7 /\ DigitVal(frac[7]) >= 5 THEN 1 ELSE 0
    IN  ToInt(six) + up

\* datetime.utcfromtimestamp(float(ts)): whole seconds since the epoch
UtcFromTimestamp(ts_int, ts_frac) ==
    ToInt(ts_int) + (IF Micros(ts_frac) >= 1000000 THEN 1 ELSE 0)

\* largest timestamp utcfromtimestamp accepts: 9999-12-31T23:59:59
MaxTimestamp == <<"2", "5", "3", "4", "0", "2", "3", "0", "0", "7", "9", "9">>

RECURSIVE StripZeros(_)
StripZeros(ds) ==
    IF Len(ds) > 1 /\ ds[1] = "0" THEN StripZeros(Tail(ds)) ELSE ds

\* a <= b for decimal numbers without leading zeros
DigitsLeq(a, b) ==
    \/ Len(a) < Len(b)
    \/ /\ Len(a) = Len(b)
       /\ \/ a = b
          \/ \E k \in 1..Len(a) :
                /\ \A j \in 1..(k - 1) : a[j] = b[j]
                /\ DigitVal(a[k]) < DigitVal(b[k])

\* utcfromtimestamp(float(ts)) returns; beyond year 9999 it raises ValueError
\* (OverflowError beyond the platform's time_t), outside the try block
TsInRange(m) == DigitsLeq(StripZeros(m.ts_int), MaxTimestamp)

\* datetime.isoformat(timespec='seconds') of a UTC instant given in seconds
IsoFormat(secs) ==
    LET days == secs \div 86400
        rem  == secs % 86400
        z    == days + 719468
        era  == z \div 146097
        doe  == z - era * 146097
        yoe  == (doe - (doe \div 1460) + (doe \div 36524) - (doe \div 146096)) \div 365
        doy  == doe - (365 * yoe + (yoe \div 4) - (yoe \div 100))
        mp   == (5 * doy + 2) \div 153
        dd   == doy - ((153 * mp + 2) \div 5) + 1
        mm   == IF mp < 10 THEN mp + 3 ELSE mp - 9
        yy   == yoe + era * 400 + (IF mm <= 2 THEN 1 ELSE 0)
    IN  Pad4(yy) \o <<"-">> \o Pad2(mm) \o <<"-">> \o Pad2(dd) \o <<"T">> \o
        Pad2(rem \div 3600) \o <<":">> \o Pad2((rem % 3600) \div 60) \o <<":">> \o
        Pad2(rem % 60)

\* ---------------------------------------------------------- configuration
\* number of lines the log writer appends in one behaviour of WideSpec
MaxLines == 2

\* self.config['sig_name']
SigNames == {<<"S">>}

\* Default sleep period between polling logs from file (in seconds)
LOOP_INTERVAL == 3

\* self.config has no 'interval'
Unset == -1

\* what the external log writer appends in one write
Hdr == <<"1", ".", "5", " ", "a", " ", "b", " ", "1", " ", "c", " ", "2">>

GoodA == Hdr \o <<" ", "S", "\n">>

GoodB == <<"8", "6", "4", "6", "1", ".", "9", " ", "a", " ", "d", " ",
           "4", "4", "3", " ", "e", " ", "5", "1", "0", "0", "0", " ", "S", "\n">>

Malformed == <<"x", " ", "S", "\n">>

NoSig == Hdr \o <<" ", "s", "\n">>

Part1 == <<"1", ".", "5", " ", "a", " ", "b", " ", "1", " ">>

Part2 == <<"c", " ", "2", " ", "S", "\n">>

Chunks == {GoodA, GoodB, Malformed, NoSig, Part1, Part2}

\* lines and configurations for the checks of the parser and the pre-filter
PortEdge == <<"1", ".", "5", " ", "a", " ", "b", " ", "0", " ", "c", " ",
              "9", "9", "9", "9", "9", " ", "S", "\n">>

SigSpace == Hdr \o <<" ", "S", " ", "\n">>

HugeTs == <<"9", "9", "9", "9", "9", "9", "9", "9", "9", "9", "9", "9", "9",
            ".", "5", " ", "a", " ", "b", " ", "1", " ", "c", " ", "2", " ",
            "S", "\n">>

SpecLine == <<"1", "7", "0", "0", "0", "0", "0", "0", "0", "0", ".", "5", " ",
              "a", " ", "1", "0", ".", "0", ".", "0", ".", "1", " ",
              "4", "4", "3", " ", "1", "0", ".", "0", ".", "0", ".", "2", " ",
              "5", "1", "0", "0", "0", " ", "S", "\n">>

WideLines == {GoodA, SpecLine, Malformed, NoSig, PortEdge, SigSpace, HugeTs}

WideSigNames == {<<"S">>, <<"S", " ">>}

CfgIntervals == {Unset, 1}

\* content of the log file when the plugin is constructed
InitFiles == {<<>>, GoodB}

\* the event template the base class supplies (self.parsed_event)
Template == [protocol |-> "tcp"]

VARIABLES
    file,          \* content of the log file at config['path']
    sig_name,      \* config['sig_name']
    pc,            \* position of run(): "init", "stat", "read", "yield", "sleep", "raised"
    pos,           \* _tail_logfile: pos
    eof,           \* _tail_logfile: eof
    lines,         \* _tail_logfile: lines not yet iterated, each with its offset
    handles,       \* number of open handles on the log file
    warned,        \* the current poll logged 'logfile got shorter'
    raised,        \* exception that escaped run(), "none" when none did
    parsed_event,  \* self.parsed_event, the one mapping _parse_log updates
    queue,         \* self.queue: references to the objects put on it
    writes,        \* history: operations of the log writer so far
    truncations,   \* history: truncations of the file so far
    oldLen,        \* history: length of the prefix written before the tailer started
    yielded,       \* history: lines yielded by _tail_logfile
    published,     \* history: for each queue entry, the yielded line and the event as put
    posAtPoll,     \* history: pos when the current poll opened the file
    changed,       \* history: the writer changed the file since the current poll opened it
    quiet,         \* history: consecutive finished polls for which Still held, capped at 2
    cfg_interval,  \* config.get('interval'), Unset when the option is absent
    ioError,       \* history: an operation on the log file failed
    sleepArg,      \* history: argument of the sleep() call in progress, 0 when none is
    detected       \* history: file generation (gen) and eof of the latest 'got shorter'
                   \* warning; lowest offset the file was cut back to since the
                   \* latest open of the file (cut), NoCut when it was not cut

vars == <<file, sig_name, pc, pos, eof, lines, handles, warned, raised,
          parsed_event, queue, writes, truncations, oldLen, yielded,
          published, posAtPoll, changed, quiet, cfg_interval, ioError,
          sleepArg, detected>>

\* detected.cut when the file was not cut back
NoCut == -1

\* what only the polls and the I/O failures touch
auxVars == <<cfg_interval, ioError, sleepArg, detected>>

\* self.interval
Interval == IF cfg_interval = Unset THEN LOOP_INTERVAL ELSE cfg_interval

monitorVars == <<pc, pos, eof, lines, handles, warned, raised, parsed_event,
                 queue, yielded, published, posAtPoll>>

\* the current poll began with the cursor at the end of the file and the
\* file has not changed since
Still == posAtPoll = eof /\ ~changed

\* the object a queue entry refers to
Deref(ref) == parsed_event

\* --------------------------------------------------------- file operations
\* end of the line that starts at offset from (offset just after its "\n",
\* or the end of the text when the last line is not terminated)
RECURSIVE LineEnd(_, _)
LineEnd(text, from) ==
    IF from >= Len(text) THEN Len(text)
    ELSE IF text[from + 1] = "\n" THEN from + 1
    ELSE LineEnd(text, from + 1)

\* logfile.seek(from); logfile.readlines()
RECURSIVE Readlines(_, _)
Readlines(text, from) ==
    IF from >= Len(text) THEN <<>>
    ELSE LET to == LineEnd(text, from)
         IN  <<[off |-> from, raw |-> Slice(text, from + 1, to)]>>
             \o Readlines(text, to)

\* logfile.tell() after seek(from) and readlines()
Tell(text, from) == IF from >= Len(text) THEN from ELSE Len(text)

\* dict.update(): the keys of new overwrite, every other key is kept
UpdateReplace(old, new) == new

UpdateKeep(old, new) ==
    [k \in DOMAIN old \cup DOMAIN new |->
        IF k \in DOMAIN old THEN old[k] ELSE new[k]]

Update(old, new) ==
    [k \in DOMAIN old \cup DOMAIN new |->
        IF k \in DOMAIN new THEN new[k] ELSE old[k]]

\* _parse_log after a successful match: the fields written to the template
ParsedFields(m) ==
    [alert_time |-> IsoFormat(UtcFromTimestamp(m.ts_int, m.ts_frac)),
     src_addr   |-> m.src_addr,
     src_port   |-> ToInt(m.src_port),
     dest_addr  |-> m.dst_addr,
     dest_port  |-> ToInt(m.dst_port)]

\* the iteration `for line in lines` takes the lines in list order
NextLineLast(ls) == ls[Len(ls)]

NextLine(ls) == Head(ls)

RestLines(ls) == Tail(ls)

\* the pre-filter of _tail_logfile
IsCandidateAny(line) == TRUE

IsCandidate(line) == Contains(line, sig_name)

\* ------------------------------------------------------------------- Init
InitMonitor ==
    /\ pc = "init"
    /\ pos = 0
    /\ eof = 0
    /\ lines = <<>>
    /\ handles = 0
    /\ warned = FALSE
    /\ raised = "none"
    /\ parsed_event = Template
    /\ queue = <<>>
    /\ writes = 0
    /\ truncations = 0
    /\ oldLen = Len(file)
    /\ yielded = <<>>
    /\ published = <<>>
    /\ posAtPoll = 0
    /\ changed = FALSE
    /\ quiet = 0
    /\ ioError = FALSE
    /\ sleepArg = 0
    /\ detected = [gen |-> -1, eof |-> 0, cut |-> NoCut]

Init ==
    /\ file \in InitFiles
    /\ sig_name \in SigNames
    /\ cfg_interval = Unset
    /\ InitMonitor

\* an empty log, any of the configurations
InitWide ==
    /\ file = <<>>
    /\ sig_name \in WideSigNames
    /\ cfg_interval \in CfgIntervals
    /\ InitMonitor

\* ------------------------------------------------------ the external writer
\* the log producer appends text to the file
WriteText(chunk) ==
    /\ UNCHANGED auxVars
    /\ file' = file \o chunk
    /\ writes' = writes + 1
    /\ oldLen' = IF pc = "init" THEN Len(file') ELSE oldLen
    /\ changed' = TRUE
    /\ quiet' = 0
    /\ UNCHANGED <<sig_name, truncations>>
    /\ UNCHANGED monitorVars

AppendText(chunk) == writes < MaxWrites /\ WriteText(chunk)

AppendLine(line) == writes < MaxLines /\ WriteText(line)

\* the file is cut back to its first n characters (truncation, rotation)
Truncate(n) ==
    /\ UNCHANGED <<cfg_interval, ioError, sleepArg>>
    /\ detected' = [detected EXCEPT !.cut = IF @ = NoCut \/ n < @ THEN n ELSE @]
    /\ writes < MaxWrites
    /\ n < Len(file)
    /\ IF n = 0 THEN TRUE ELSE file[n] = "\n"
    /\ file' = Slice(file, 1, n)
    /\ writes' = writes + 1
    /\ truncations' = truncations + 1
    /\ oldLen' = IF n < oldLen THEN n ELSE oldLen
    /\ changed' = TRUE
    /\ quiet' = 0
    /\ UNCHANGED sig_name
    /\ UNCHANGED monitorVars

\* ------------------------------------------------------------ the monitor
\* logfile.seek(0, 2); logfile.tell()
SeekEnd(text) == Len(text)

\* the starting cursor when pos is None
StartPosZero(text) == 0

StartPos(text) == SeekEnd(text)

\* the cursor after 'logfile got shorter' was detected
ResetPosKeep(p, e) == p

ResetPosZero(p, e) == 0

ResetPos(p, e) == e

\* the cursor after readlines(): pos = logfile.tell()
NewPosEof(text, p, e) == e

NewPos(text, p, e) == Tell(text, p)

\* the offset readlines() starts at: logfile.seek(pos)
ReadFromStart(p, e) == 0

ReadFrom(p, e) == p

\* leaving the with block closes the file opened by the poll
CloseOnExitLeak(h) == h

CloseOnExit(h) == h - 1

\* run() calls _tail_logfile(path) with pos=None: the first open/seek/tell
Start ==
    /\ UNCHANGED <<cfg_interval, ioError, sleepArg>>
    /\ detected' = [detected EXCEPT !.cut = NoCut]
    /\ pc = "init"
    /\ pos' = StartPos(file)
    /\ pc' = "stat"
    /\ UNCHANGED <<file, sig_name, eof, lines, handles, warned, raised,
                   parsed_event, queue, writes, truncations, oldLen, yielded,
                   published, posAtPoll, changed, quiet>>

\* one poll opens the file, takes its length and checks for truncation
PollStat ==
    /\ UNCHANGED <<cfg_interval, ioError, sleepArg>>
    /\ detected' = IF pos > SeekEnd(file)
                   THEN [gen |-> truncations, eof |-> SeekEnd(file), cut |-> NoCut]
                   ELSE [detected EXCEPT !.cut = NoCut]
    /\ pc = "stat"
    /\ handles' = handles + 1
    /\ eof' = SeekEnd(file)
    /\ posAtPoll' = pos
    /\ warned' = (pos > eof')
    /\ pos' = IF pos > eof' THEN ResetPos(pos, eof') ELSE pos
    /\ changed' = FALSE
    /\ pc' = "read"
    /\ UNCHANGED <<file, sig_name, lines, raised, parsed_event, queue, writes,
                   truncations, oldLen, yielded, published, quiet>>

\* the poll seeks to pos, reads the lines and takes the new position
PollRead ==
    /\ pc = "read"
    /\ lines' = LET ls == Readlines(file, ReadFrom(pos, eof))
                IN  [k \in 1..Len(ls) |->
                        [off |-> ls[k].off, raw |-> ls[k].raw, gen |-> truncations]]
    /\ pos' = NewPos(file, pos, eof)
    /\ pc' = IF lines' = <<>> THEN "sleep" ELSE "yield"
    /\ quiet' = IF Still THEN (IF quiet < 2 THEN quiet + 1 ELSE 2) ELSE 0
    /\ UNCHANGED <<cfg_interval, ioError, detected>>
    /\ sleepArg' = IF lines' = <<>> THEN Interval ELSE sleepArg
    /\ UNCHANGED <<file, sig_name, eof, handles, warned, raised, parsed_event,
                   queue, writes, truncations, oldLen, yielded, published,
                   posAtPoll, changed>>

\* no lines: sleep(self.interval) inside the with block, then the next poll
Sleep ==
    /\ UNCHANGED <<cfg_interval, ioError, detected>>
    /\ sleepArg' = 0
    /\ pc = "sleep"
    /\ handles' = CloseOnExit(handles)
    /\ pc' = "stat"
    /\ UNCHANGED <<file, sig_name, pos, eof, lines, warned, raised,
                   parsed_event, queue, writes, truncations, oldLen, yielded,
                   published, posAtPoll, changed, quiet>>

\* the for loop moves on; after the last line the with block closes the file
AfterLinesSleep == "sleep"

AfterLines == "stat"

Advance ==
    /\ lines' = RestLines(lines)
    /\ IF lines' = <<>>
       THEN pc' = AfterLines /\ handles' = CloseOnExit(handles)
       ELSE pc' = "yield" /\ handles' = handles

Yielded(line) ==
    Append(yielded, [off |-> line.off, gen |-> line.gen, raw |-> line.raw,
                     arg |-> Strip(line.raw)])

\* a line without sig_name is dropped by the pre-filter
Discard ==
    /\ UNCHANGED auxVars
    /\ pc = "yield"
    /\ ~IsCandidate(NextLine(lines).raw)
    /\ Advance
    /\ UNCHANGED <<file, sig_name, pos, eof, warned, raised, parsed_event,
                   queue, writes, truncations, oldLen, yielded, published,
                   posAtPoll, changed, quiet>>

\* a line with sig_name is yielded stripped; _parse_log matches it, updates
\* self.parsed_event and returns it; run() puts it on the queue
Publish ==
    /\ UNCHANGED auxVars
    /\ pc = "yield"
    /\ IsCandidate(NextLine(lines).raw)
    /\ LET m == RE_SIG_LOG(Strip(NextLine(lines).raw))
       IN  /\ m.matched
           /\ TsInRange(m)
           /\ parsed_event' = Update(parsed_event, ParsedFields(m))
    /\ yielded' = Yielded(NextLine(lines))
    /\ queue' = Append(queue, "parsed_event")
    /\ published' = Append(published, [idx |-> Len(yielded'), event |-> parsed_event'])
    /\ Advance
    /\ UNCHANGED <<file, sig_name, pos, eof, warned, raised, writes,
                   truncations, oldLen, posAtPoll, changed, quiet>>

\* a line with sig_name that RE_SIG_LOG does not match: match() returns None
\* and None.groupdict() raises AttributeError, which `except ValueError` does
\* not catch; it leaves _parse_log and run(). The suspended generator still
\* holds the file; it is closed when the generator is finalised, at once
\* (reference counting) or later (Finalize). A matched line whose timestamp
\* utcfromtimestamp rejects raises ValueError at line 109 the same way.
ParseRaises ==
    /\ UNCHANGED auxVars
    /\ pc = "yield"
    /\ IsCandidate(NextLine(lines).raw)
    /\ LET m == RE_SIG_LOG(Strip(NextLine(lines).raw))
       IN  /\ IF m.matched THEN ~TsInRange(m) ELSE TRUE
           /\ raised' = IF m.matched THEN "ValueError" ELSE "AttributeError"
    /\ yielded' = Yielded(NextLine(lines))
    /\ pc' = "raised"
    /\ lines' = <<>>
    /\ handles' \in {CloseOnExit(handles), handles}
    /\ UNCHANGED <<file, sig_name, pos, eof, warned, parsed_event, queue,
                   writes, truncations, oldLen, published, posAtPoll, changed,
                   quiet>>

\* the generator left suspended by an exception in run() is finalised:
\* GeneratorExit at the yield leaves the with block, which closes the file
Finalize ==
    /\ pc = "raised"
    /\ handles > 0
    /\ handles' = CloseOnExit(handles)
    /\ UNCHANGED <<file, sig_name, pc, pos, eof, lines, warned, raised,
                   parsed_event, queue, writes, truncations, oldLen, yielded,
                   published, posAtPoll, changed, quiet>>
    /\ UNCHANGED auxVars

Next ==
    \/ Start
    \/ PollStat
    \/ PollRead
    \/ Sleep
    \/ Discard
    \/ Publish
    \/ ParseRaises
    \/ Finalize
    \/ \E chunk \in Chunks : AppendText(chunk)
    \/ \E n \in 0..Len(file) : Truncate(n)

Spec == Init /\ [][Next]_vars

\* where an exception raised by a file operation goes: nothing in
\* _tail_logfile or run() catches it
OnIOErrorRetry == "stat"

OnIOError == "raised"

\* open() raises OSError (file removed, no permission), at the start or in a poll
OpenFails ==
    /\ pc \in {"init", "stat"}
    /\ ioError' = TRUE
    /\ pc' = OnIOError
    /\ raised' = IF pc' = "raised" THEN "OSError" ELSE raised
    /\ UNCHANGED <<file, sig_name, pos, eof, lines, handles, warned,
                   parsed_event, queue, writes, truncations, oldLen, yielded,
                   published, posAtPoll, changed, quiet, cfg_interval,
                   sleepArg, detected>>

\* seek() or readlines() raises inside the with block, which closes the file
ReadFails ==
    /\ pc = "read"
    /\ ioError' = TRUE
    /\ handles' = CloseOnExit(handles)
    /\ pc' = OnIOError
    /\ raised' = IF pc' = "raised" THEN "OSError" ELSE raised
    /\ UNCHANGED <<file, sig_name, pos, eof, lines, warned, parsed_event,
                   queue, writes, truncations, oldLen, yielded, published,
                   posAtPoll, changed, quiet, cfg_interval, sleepArg, detected>>

NextFault == Next \/ OpenFails \/ ReadFails

\* the program with failing file operations
FaultSpec == Init /\ [][NextFault]_vars

NextWide ==
    \/ Start
    \/ PollStat
    \/ PollRead
    \/ Sleep
    \/ Discard
    \/ Publish
    \/ ParseRaises
    \/ Finalize
    \/ \E line \in WideLines : AppendLine(line)

\* the program on an append-only log, over more lines and configurations
WideSpec == InitWide /\ [][NextWide]_vars

\* ------------------------------------------------------- shared predicates
Matches(text) == RE_SIG_LOG(text).matched

\* _parse_log returns an event for the text
Parses(text) == Matches(text) /\ TsInRange(RE_SIG_LOG(text))

\* the yielded lines _parse_log returned an event for
ParsedOk == {i \in 1..Len(yielded) : Parses(yielded[i].arg)}

\* offset o of the file starts a line
LineStart(o) == o < Len(file) /\ (IF o = 0 THEN TRUE ELSE file[o] = "\n")

\* the text of the line of the file that starts at offset o
LineAt(o) == Slice(file, o + 1, LineEnd(file, o))

\* a complete, relevant, well-formed line starts at o, written after the start
RelevantLineAt(o) ==
    /\ LineStart(o)
    /\ o >= oldLen
    /\ LineAt(o)[Len(LineAt(o))] = "\n"
    /\ Contains(LineAt(o), sig_name)
    /\ Matches(Strip(LineAt(o)))

PublishedAt(o) ==
    \E q \in 1..Len(published) : yielded[published[q].idx].off = o

SomeUnpublished ==
    \E o \in 0..Len(file) : RelevantLineAt(o) /\ ~PublishedAt(o)

\* --------------------------------------------------------------------- C1
\* C1: a line that contains sig_name but does not match RE_SIG_LOG makes
\* _parse_log return a parse failure without raising, and run() goes on:
\* no exception ever escapes run() because of a yielded line that does not
\* match.
C1_MalformedLineSkipped ==
    \A i \in 1..Len(yielded) :
        ~Matches(yielded[i].arg) => (raised = "none" /\ pc # "raised")

\* --------------------------------------------------------------------- C2
\* C2: while the file is only appended to, no region is read twice: the
\* yielded lines are the file's text at strictly increasing offsets, the
\* lines still pending lie after them and before the cursor, and the queue
\* holds exactly one entry per yielded line that parsed.
C2_ExactlyOnce ==
    truncations = 0 =>
        /\ \A i, j \in 1..Len(yielded) :
              i < j => yielded[i].off + Len(yielded[i].raw) <= yielded[j].off
        /\ \A i \in 1..Len(yielded) :
              yielded[i].raw
                = Slice(file, yielded[i].off + 1, yielded[i].off + Len(yielded[i].raw))
        /\ \A k \in 1..Len(lines) :
              /\ lines[k].off + Len(lines[k].raw) <= pos
              /\ \A i \in 1..Len(yielded) :
                    yielded[i].off + Len(yielded[i].raw) <= lines[k].off
        /\ Len(queue) = Cardinality(ParsedOk)
        /\ Len(published) = Len(queue)
        /\ \A i \in ParsedOk :
              Cardinality({q \in 1..Len(published) : published[q].idx = i}) = 1

\* two events were published from an append-only file over more than one poll
C2_Witness ==
    /\ truncations = 0
    /\ Len(queue) >= 2
    /\ pc = "sleep"
    /\ posAtPoll > yielded[1].off + Len(yielded[1].raw)

\* --------------------------------------------------------------------- C3
\* C3: while the file is not truncated, every complete relevant well-formed
\* line appended after the tailer started is eventually put on the queue.
\* Once run() has been left no line is put any more, so at that point no
\* such line may be waiting.
C3_EveryRelevantLinePublished ==
    (truncations = 0 /\ pc = "raised") => ~SomeUnpublished

\* --------------------------------------------------------------------- C4
\* C4: a line that does not contain sig_name (case-sensitive substring) is
\* never yielded, never parsed and never produces a queue entry: every
\* yielded line, and so every line behind a queue entry, contains sig_name.
C4_OnlyCandidatesYielded ==
    /\ \A i \in 1..Len(yielded) : Contains(yielded[i].raw, sig_name)
    /\ \A q \in 1..Len(published) :
          /\ published[q].idx \in 1..Len(yielded)
          /\ Contains(yielded[published[q].idx].raw, sig_name)
    /\ Len(queue) <= Len(yielded)

\* a line without sig_name was read (the cursor is past it) and dropped,
\* while a line with sig_name was yielded
C4_Witness ==
    /\ truncations = 0
    /\ pc = "stat"
    /\ yielded # <<>>
    /\ \E o \in 0..Len(file) :
          /\ LineStart(o)
          /\ o >= oldLen
          /\ LineEnd(file, o) <= pos
          /\ ~Contains(LineAt(o), sig_name)
          /\ Matches(Strip(LineAt(o)))

\* --------------------------------------------------------------------- C5
\* C5: started without a position, the starting cursor is the end-of-file
\* offset at that moment, and no yielded line starts inside the text that
\* was in the file before the tailer started.
C5_TailNotFullRead ==
    [][/\ (pc = "init" /\ pc' # "init") => pos' = Len(file)
       /\ \A i \in 1..Len(yielded') : yielded'[i].off >= oldLen']_vars

\* the file held a relevant line before the start and lines were yielded since
C5_Witness ==
    /\ oldLen > 0
    /\ RE_SIG_LOG(Strip(LineAt(0))).matched
    /\ Contains(LineAt(0), sig_name)
    /\ yielded # <<>>

\* --------------------------------------------------------------------- C6
\* a poll that logged 'logfile got shorter' has read the file
AfterTruncatedRead == warned /\ pc \in {"sleep", "yield"}

\* C6 as stated: when a poll observes eof < cursor, the cursor that results
\* from that poll equals eof, a warning is logged and no exception escapes.
C6_ResultingCursorIsEof ==
    AfterTruncatedRead => (pos = eof /\ raised = "none")

\* C6 as amended: when a poll observes eof < cursor, a warning is logged, the
\* cursor is reset to eof before the read and no exception escapes the poll;
\* the cursor that results from the poll is never below eof, and it equals
\* eof when the file did not change between the poll's length observation
\* and its read.
C6_TruncationResetsCursor ==
    /\ (warned /\ pc = "read") => (pos = eof /\ eof < posAtPoll /\ raised = "none")
    /\ AfterTruncatedRead =>
          /\ eof < posAtPoll
          /\ pos >= eof
          /\ ~changed => (pos = eof /\ lines = <<>> /\ pc = "sleep")
          /\ raised = "none"
    /\ (pc \in {"read", "sleep", "yield"} /\ eof < posAtPoll) => warned

\* a poll found a file cut back to a non-empty prefix and finished quietly
C6_Witness ==
    /\ AfterTruncatedRead
    /\ ~changed
    /\ 0 < eof
    /\ pos = eof

\* --------------------------------------------------------------------- C7
\* C7: the cursor never decreases, except in the step of a poll that detects
\* truncation, which sets it to the new, smaller end-of-file offset.
C7_CursorMonotone ==
    [][\/ pos' >= pos
       \/ /\ pc = "stat"
          /\ warned'
          /\ Len(file) < pos
          /\ pos' = Len(file)]_vars

\* a poll has moved the cursor back to a smaller, non-zero end of file
C7_Witness ==
    /\ warned
    /\ pc = "read"
    /\ 0 < pos
    /\ pos < posAtPoll

\* --------------------------------------------------------------------- C8
\* C8: a poll that starts with the cursor at the end of the file, while the
\* file does not change, reads no lines and leaves the cursor unchanged; so
\* does the poll after it.
C8_QuietPollIdempotent ==
    /\ (pc \in {"sleep", "yield"} /\ Still) =>
          /\ lines = <<>>
          /\ pc = "sleep"
          /\ pos = posAtPoll
    /\ (quiet >= 1 /\ pc \in {"stat", "read"} /\ ~changed) => pos = Len(file)

\* two polls in a row found nothing new in a file that holds text
C8_Witness ==
    /\ quiet = 2
    /\ pc = "sleep"
    /\ Still
    /\ pos > 0
    /\ yielded # <<>>

\* --------------------------------------------------------------------- C9
\* C9: lines are yielded in file order (strictly increasing offsets as long
\* as the file was not truncated in between), each yielded line is parsed
\* and its event put before the next line is yielded, events are put in the
\* order of their lines, and no line of a poll is left when the next poll
\* opens the file.
C9_FileOrder ==
    /\ \A i, j \in 1..Len(yielded) :
          (i < j /\ yielded[i].gen = yielded[j].gen) => yielded[i].off < yielded[j].off
    /\ \A k \in 1..Len(lines) :
          /\ \A m \in 1..Len(lines) : k < m => lines[k].off < lines[m].off
          /\ \A i \in 1..Len(yielded) :
                yielded[i].gen = lines[k].gen => yielded[i].off < lines[k].off
    /\ \A q, r \in 1..Len(published) : q < r => published[q].idx < published[r].idx
    /\ \A i \in ParsedOk : \E q \in 1..Len(published) : published[q].idx = i
    /\ pc \in {"init", "stat", "read", "sleep"} => lines = <<>>

\* in the middle of one poll's lines: one line of the poll was published and
\* a later relevant line of the same poll is waiting
C9_Witness ==
    /\ pc = "yield"
    /\ lines # <<>>
    /\ published # <<>>
    /\ IsCandidate(lines[1].raw)
    /\ LET y == yielded[published[Len(published)].idx]
       IN  y.gen = lines[1].gen /\ y.off + Len(y.raw) = lines[1].off /\ y.off >= posAtPoll

\* -------------------------------------------------------------------- C10
\* C10: an event already put on the queue is never modified by the parsing
\* of a later line: every queue entry still has the field values it was put
\* with.
C10_QueuedEventsKeepValues ==
    \A q \in 1..Len(queue) : Deref(queue[q]) = published[q].event

\* -------------------------------------------------------------------- C11
\* the keys _parse_log writes
EventKeys == {"alert_time", "src_addr", "src_port", "dest_addr", "dest_port"}

\* C11: a successful parse writes only alert_time, src_addr, src_port,
\* dest_addr and dest_port of the template; every other key of the template
\* keeps its value, in the template and in the event as put.
C11_OnlyFiveKeysWritten ==
    [][/\ parsed_event' # parsed_event =>
            /\ DOMAIN parsed_event' = DOMAIN parsed_event \cup EventKeys
            /\ \A k \in DOMAIN parsed_event \ EventKeys :
                  parsed_event'[k] = parsed_event[k]
       /\ \A q \in 1..Len(published') :
            /\ DOMAIN Template \subseteq DOMAIN published'[q].event
            /\ \A k \in DOMAIN Template :
                  published'[q].event[k] = Template[k]]_vars

\* the template was written by two parses and still has the base class's key
C11_Witness ==
    /\ Len(queue) >= 2
    /\ published[1].event # published[2].event
    /\ DOMAIN parsed_event = EventKeys \cup {"protocol"}
    /\ parsed_event.protocol = "tcp"

\* -------------------------------------------------------------------- C12
\* t is YYYY-MM-DDTHH:MM:SS: ISO 8601 with exactly second precision
IsIsoSeconds(t) ==
    /\ Len(t) = 19
    /\ t[5] = "-" /\ t[8] = "-" /\ t[11] = "T" /\ t[14] = ":" /\ t[17] = ":"
    /\ \A k \in (1..19) \ {5, 8, 11, 14, 17} : IsDigit(t[k])
    /\ ToInt(Slice(t, 6, 7)) \in 1..12
    /\ ToInt(Slice(t, 9, 10)) \in 1..31
    /\ ToInt(Slice(t, 12, 13)) \in 0..23
    /\ ToInt(Slice(t, 15, 16)) \in 0..59
    /\ ToInt(Slice(t, 18, 19)) \in 0..59

\* the line a queue entry was parsed from
LineOf(q) == yielded[published[q].idx]

C13_IOErrorPropagates ==
    [][/\ ioError' => (pc' = "raised" /\ raised' = "OSError")
       /\ ioError => (queue' = queue /\ published' = published /\ yielded' = yielded)]_vars

\* a file operation failed after an event had been put, while a relevant
\* line was still waiting in the file
C13_Witness ==
    /\ ioError
    /\ pc = "raised"
    /\ raised = "OSError"
    /\ queue # <<>>
    /\ SomeUnpublished

ConfiguredInterval == IF cfg_interval = Unset THEN 3 ELSE cfg_interval

\* C15: a poll cycle sleeps, for the configured interval (default 3), exactly
\* when readlines() returned no lines; nothing else suspends the loop, and a
\* cycle that read at least one line, relevant or not, goes on to its lines
\* and from the last of them to the next poll without sleeping.
C15_SleepsIffNoLines ==
    [][/\ (pc = "read" /\ pc' \notin {"read", "raised"}) =>
            /\ lines' = <<>> => (pc' = "sleep" /\ sleepArg' = ConfiguredInterval)
            /\ lines' # <<>> => (pc' = "yield" /\ sleepArg' = 0)
       /\ (pc' = "sleep" /\ pc # "sleep") => (pc = "read" /\ lines' = <<>>)
       /\ pc = "yield" => (pc' \in {"yield", "stat", "raised"} /\ sleepArg' = 0)
       /\ (sleepArg' # 0) = (pc' = "sleep")]_vars

\* with interval 1 configured, the first cycle read a line without sig_name
\* and has ended without sleeping
C15_Witness ==
    /\ cfg_interval = 1
    /\ pc = "stat"
    /\ sleepArg = 0
    /\ yielded = <<>>
    /\ file = NoSig
    /\ posAtPoll = 0
    /\ pos = Len(file)

\* -------------------------------------------------------------------- C16
\* C16: every line yielded by _tail_logfile, in the stripped form handed to
\* the parser, contains sig_name, whatever sig_name is configured.
C16_StrippedLineHasSigName ==
    \A i \in 1..Len(yielded) : Contains(yielded[i].arg, sig_name)

\* -------------------------------------------------------------------- C17
\* the file is still the one in which the latest truncation was detected
SinceDetection == detected.gen >= 0 /\ detected.gen = truncations

\* C17: once a poll has detected truncation, no line lying below the end of
\* file it observed is yielded by that poll or a later one, relevant or not:
\* every line read from that file starts at or after that offset, and so
\* does the cursor.
C17_LinesBelowNewEofLost ==
    /\ \A i \in 1..Len(yielded) :
          yielded[i].gen = detected.gen => yielded[i].off >= detected.eof
    /\ \A k \in 1..Len(lines) :
          lines[k].gen = detected.gen => lines[k].off >= detected.eof
    /\ (SinceDetection /\ pc # "init") => pos >= detected.eof

\* a relevant well-formed line written after the previous poll lies below the
\* end of file of the detecting poll and was never published, while a line
\* appended after the reset cursor was
C17_Witness ==
    /\ SinceDetection
    /\ pc = "stat"
    /\ \E o \in 0..Len(file) :
          /\ o < detected.eof
          /\ RelevantLineAt(o)
          /\ \A i \in 1..Len(yielded) : yielded[i].gen = detected.gen => yielded[i].off # o
    /\ \E q \in 1..Len(published) :
          /\ LineOf(q).gen = detected.gen
          /\ LineOf(q).off >= detected.eof

\* -------------------------------------------------------------------- C18
\* offset o of the file is the start of a line
AtLineBoundary(o) == IF o = 0 \/ o > Len(file) THEN TRUE ELSE file[o] = "\n"

\* C18: on a file that is only appended to, every line yielded from text
\* written after the tailer started is one complete line of the file (it
\* starts at a line start or at the starting cursor and ends with its
\* newline) and no poll leaves the cursor inside an incomplete line.
C18_OnlyCompleteLines ==
    truncations = 0 =>
        /\ \A i \in 1..Len(yielded) :
              /\ yielded[i].off = oldLen \/ AtLineBoundary(yielded[i].off)
              /\ yielded[i].raw[Len(yielded[i].raw)] = "\n"
        /\ pc \in {"stat", "yield", "sleep"} => (pos = oldLen \/ AtLineBoundary(pos))

\* -------------------------------------------------------------------- C19
\* C19: every truncation that cut the file back below the cursor since the
\* previous open is detected by the next poll: it logs the warning and
\* resets the cursor to the end of the file, also when the file has grown
\* back to the old cursor in between.
C19_EveryTruncationDetected ==
    [][(pc = "stat" /\ pc' = "read" /\ detected.cut # NoCut /\ detected.cut < pos) =>
            (warned' /\ pos' = Len(file))]_vars

\* -------------------------------------------------------------------- C20
\* C20: at the moment an event is put on the queue, its alert_time,
\* src_addr, src_port, dest_addr and dest_port are those of the line just
\* parsed: no field is left over from an earlier line.
C20_EventFromItsLine ==
    \A q \in 1..Len(published) :
        LET ev == published[q].event
            m  == RE_SIG_LOG(LineOf(q).arg)
        IN  /\ m.matched
            /\ EventKeys \subseteq DOMAIN ev
            /\ ev.alert_time = IsoFormat(UtcFromTimestamp(m.ts_int, m.ts_frac))
            /\ ev.src_addr = m.src_addr
            /\ ev.src_port = ToInt(m.src_port)
            /\ ev.dest_addr = m.dst_addr
            /\ ev.dest_port = ToInt(m.dst_port)

\* two events were put from lines that differ in every field
C20_Witness ==
    /\ Len(published) >= 2
    /\ \A k \in EventKeys : published[1].event[k] # published[2].event[k]

====
